---- MODULE Spec2Model ----
(***************************************************************************)
(* Model of the feed_scanner ingestion pipeline: the announcement store    *)
(* (src/db/repositories/announcement.py), the feed and PDF stages          *)
(* (src/pipeline/processors/feed.py, pdf.py, base.py) and the orchestrator *)
(* (src/pipeline/orchestrator.py).                                         *)
(*                                                                         *)
(* The pipeline runs on one asyncio event loop.  A department task runs    *)
(* without interruption until it awaits a network call or a file write in  *)
(* the thread pool; `cur` names the task that holds the event loop and is  *)
(* None while every task is suspended.                                     *)
(***************************************************************************)
EXTENDS Integers, Sequences, FiniteSets, TLC

\* ------------------------------------------------------------------ bounds
MaxClock == 3        \* store writes (each write reads datetime.now() once)
MaxRuns  == 2        \* Orchestrator.run invocations
MaxBatch == 2        \* items in one feed document, one department per run
MaxConcBatch == 1    \* items in one feed document, departments in parallel
MaxEntries == 2      \* entries of one downloaded archive
MaxZipCalls == 2     \* calls of DocumentProcessor._process_zip_file

\* --------------------------------------------------------------- constants
MAX_RETRIES == 3     \* BaseRepository.MAX_RETRIES
HTTP_OK == 200

Depts    == {"d1", "d2"}
Projects == {"p1", "p2"}
None     == "None"
NULL     == "NULL"
NoRow    == [id |-> 0]

PENDING    == "pending"
PROCESSING == "processing"
COMPLETED  == "completed"
FAILED     == "failed"

\* ------------------------------------------------------------ feed content
\* A description is the sequence of its comma-delimited tokens
\* (str.split(",")); the empty description is << >>.
Strip(tok) ==
    CASE tok = " p1 " -> "p1"
      [] tok = " "    -> ""
      [] OTHER        -> tok

GoodItems ==
    { [title |-> "t1", link |-> "l1", description |-> <<"p1", "a">>],
      [title |-> "t2", link |-> "l2", description |-> <<" p1 ", "b">>],
      [title |-> "t1", link |-> "l1", description |-> <<"p2">>] }

Items ==
    GoodItems \cup
    { [title |-> "t3", link |-> "l1", description |-> << >>],
      [title |-> "t3", link |-> "l2", description |-> <<" ", "x">>] }

Batches == UNION { [1..n -> Items] : n \in 0..MaxBatch }
ConcBatches == UNION { [1..n -> GoodItems] : n \in 0..MaxConcBatch }

\* A response body: empty, not well-formed XML, or a feed of items.
EmptyBody == [kind |-> "empty", items |-> << >>]
Garbage   == [kind |-> "garbage", items |-> << >>]
NoContent == [kind |-> "none", items |-> << >>]
Bodies(batches) ==
    {EmptyBody, Garbage} \cup { [kind |-> "xml", items |-> b] : b \in batches }

\* An HTTP exchange: it raises (timeout, connection error: no status, no
\* body) or it answers with a status and a body.
Responses(batches) ==
    {[exc |-> TRUE, status |-> 0, body |-> EmptyBody]}
    \cup [exc : {FALSE}, status : {HTTP_OK}, body : Bodies(batches)]
    \cup [exc : {FALSE}, status : {503},
          body : Bodies({b \in batches : Len(b) <= 1})]

SeqResponses  == Responses(Batches)
ConcResponses == Responses(ConcBatches)
OverlapResponses ==
    Responses({<< >>, <<[title |-> "t1", link |-> "l1",
                         description |-> <<"p1", "a">>]>>})

\* _fetch_feed without the status test: the body of any answer.
FetchFeed_AnyStatus(resp) ==
    IF resp.exc THEN NoContent ELSE resp.body

\* FeedProcessor._fetch_feed: the decoded body of a 200 answer, else None.
FetchFeed(resp) ==
    IF resp.exc THEN NoContent
    ELSE IF resp.status = HTTP_OK THEN resp.body
    ELSE NoContent

\* `if not feed_content`: None and the empty string are falsy.
FeedContentMissing(content) == content.kind \in {"none", "empty"}

\* project_id of a parsed item: parts[0].strip() of a non-empty description,
\* "" when the item gets no project_id.
ProjectIdOf(item) ==
    IF item.description = << >> THEN ""
    ELSE Strip(item.description[1])

\* FeedProcessor._parse_feed: items that carry a project_id, in feed order;
\* [] on a document that is not XML.
ParseFeed(content) ==
    IF content.kind # "xml" THEN << >>
    ELSE LET withId(it) == ProjectIdOf(it) # ""
             kept == SelectSeq(content.items, withId)
         IN  [i \in 1..Len(kept) |->
                 [project_id  |-> ProjectIdOf(kept[i]),
                  title       |-> kept[i].title,
                  link        |-> kept[i].link,
                  description |-> kept[i].description]] \o << >>

\* ------------------------------------------------------------------- store
\* Announcement(...) built with the status of the running processor.
NewAnnouncement_ProcessorStatus(data, dept) ==
    [id |-> 0, project_id |-> data.project_id, dept_id |-> dept,
     title |-> data.title, link |-> data.link,
     description |-> data.description, status |-> PROCESSING,
     pdf_path |-> NULL, budget_amount |-> NULL, quantity |-> NULL,
     duration_years |-> NULL, duration_months |-> NULL,
     submission_date |-> NULL, contact_phone |-> NULL,
     contact_email |-> NULL, created_at |-> 0, updated_at |-> 0]

\* Announcement(...) as FeedProcessor.process builds it.
NewAnnouncement(data, dept) ==
    [id |-> 0, project_id |-> data.project_id, dept_id |-> dept,
     title |-> data.title, link |-> data.link,
     description |-> data.description, status |-> PENDING,
     pdf_path |-> NULL, budget_amount |-> NULL, quantity |-> NULL,
     duration_years |-> NULL, duration_months |-> NULL,
     submission_date |-> NULL, contact_phone |-> NULL,
     contact_email |-> NULL, created_at |-> 0, updated_at |-> 0]

\* AnnouncementRepository.get_by_project_id
GetByProjectId(tbl, pid) ==
    IF \E i \in 1..Len(tbl) : tbl[i].project_id = pid
    THEN tbl[CHOOSE i \in 1..Len(tbl) : tbl[i].project_id = pid]
    ELSE NoRow

\* upsert as a plain INSERT into a table without the UNIQUE constraint.
Upsert_InsertOnly(tbl, a, now) ==
    Append(tbl, [a EXCEPT !.id = Len(tbl) + 1,
                          !.created_at = now, !.updated_at = now])

\* upsert whose DO UPDATE clause also sets created_at.
Upsert_TouchCreated(tbl, a, now) ==
    IF \E i \in 1..Len(tbl) : tbl[i].project_id = a.project_id
    THEN LET k == CHOOSE i \in 1..Len(tbl) : tbl[i].project_id = a.project_id
         IN  [tbl EXCEPT ![k].title = a.title, ![k].link = a.link,
                         ![k].description = a.description,
                         ![k].status = a.status, ![k].created_at = now,
                         ![k].updated_at = now]
    ELSE Append(tbl, [a EXCEPT !.id = Len(tbl) + 1,
                               !.created_at = now, !.updated_at = now])

\* upsert whose DO UPDATE clause also sets dept_id.
Upsert_TouchDept(tbl, a, now) ==
    IF \E i \in 1..Len(tbl) : tbl[i].project_id = a.project_id
    THEN LET k == CHOOSE i \in 1..Len(tbl) : tbl[i].project_id = a.project_id
         IN  [tbl EXCEPT ![k].title = a.title, ![k].link = a.link,
                         ![k].description = a.description,
                         ![k].status = a.status, ![k].dept_id = a.dept_id,
                         ![k].updated_at = now]
    ELSE Append(tbl, [a EXCEPT !.id = Len(tbl) + 1,
                               !.created_at = now, !.updated_at = now])

\* AnnouncementRepository.upsert: INSERT ... ON CONFLICT(project_id) DO UPDATE
Upsert(tbl, a, now) ==
    IF \E i \in 1..Len(tbl) : tbl[i].project_id = a.project_id
    THEN LET k == CHOOSE i \in 1..Len(tbl) : tbl[i].project_id = a.project_id
         IN  [tbl EXCEPT ![k].title = a.title, ![k].link = a.link,
                         ![k].description = a.description,
                         ![k].status = a.status, ![k].updated_at = now]
    ELSE Append(tbl, [a EXCEPT !.id = Len(tbl) + 1,
                               !.created_at = now, !.updated_at = now])

\* to_dict drops None values, so update() leaves a column alone when the
\* in-memory attribute is None.
Keep(new, old) == IF new = NULL THEN old ELSE new

\* AnnouncementRepository.update: UPDATE ... SET <non-None attributes>
\* WHERE id = ?, created_at never in the SET clause.
Update(tbl, a, now) ==
    IF \E i \in 1..Len(tbl) : tbl[i].id = a.id
    THEN LET k == CHOOSE i \in 1..Len(tbl) : tbl[i].id = a.id
         IN  [tbl EXCEPT
                ![k].project_id = a.project_id, ![k].title = a.title,
                ![k].link = a.link, ![k].description = a.description,
                ![k].dept_id = a.dept_id, ![k].status = a.status,
                ![k].pdf_path = Keep(a.pdf_path, @),
                ![k].budget_amount = Keep(a.budget_amount, @),
                ![k].quantity = Keep(a.quantity, @),
                ![k].duration_years = Keep(a.duration_years, @),
                ![k].duration_months = Keep(a.duration_months, @),
                ![k].submission_date = Keep(a.submission_date, @),
                ![k].contact_phone = Keep(a.contact_phone, @),
                ![k].contact_email = Keep(a.contact_email, @),
                ![k].updated_at = now]
    ELSE tbl

\* update_status that also records the document path of the row.
UpdateStatus_WithPath(tbl, id, status, now) ==
    IF \E i \in 1..Len(tbl) : tbl[i].id = id
    THEN LET k == CHOOSE i \in 1..Len(tbl) : tbl[i].id = id
         IN  [tbl EXCEPT ![k].status = status, ![k].updated_at = now,
                         ![k].pdf_path = "pdfs/doc.pdf"]
    ELSE tbl

\* update_status whose SET clause has the status alone.
UpdateStatus_NoStamp(tbl, id, status, now) ==
    IF \E i \in 1..Len(tbl) : tbl[i].id = id
    THEN LET k == CHOOSE i \in 1..Len(tbl) : tbl[i].id = id
         IN  [tbl EXCEPT ![k].status = status]
    ELSE tbl

\* AnnouncementRepository.update_status
UpdateStatus(tbl, id, status, now) ==
    IF \E i \in 1..Len(tbl) : tbl[i].id = id
    THEN LET k == CHOOSE i \in 1..Len(tbl) : tbl[i].id = id
         IN  [tbl EXCEPT ![k].status = status, ![k].updated_at = now]
    ELSE tbl

\* The store rejects the first `busy` attempts of a statement
\* ("database is locked") and accepts the next one: accepted at once,
\* rejected once, rejected through every retry.
BusyRuns == {0, 1, MAX_RETRIES}

\* AnnouncementRepository.execute_query: one cursor.execute, the exception
\* re-raised.
ExecuteQuery(busy) ==
    [attempts |-> 1, error |-> busy >= 1]

\* ----------------------------------------------------------- PDF documents
NoFile      == "nofile"
EmptyFile   == "emptyfile"
DocContents == {"corrupt", "full", "budget_only"}
DocResponses == [exc : BOOLEAN, status : {HTTP_OK, 503},
                 body : {""} \cup DocContents]

\* <pdf_dir>/<project_id>/<project_id>.pdf
PdfPath(pid) == IF pid = "p1" THEN "pdfs/p1/p1.pdf" ELSE "pdfs/p2/p2.pdf"

\* Extraction that gives up on the document when a field has no match.
ExtractPdfData_AllOrNothing(content) ==
    IF content = "full"
    THEN [ok |-> TRUE, budget_amount |-> "1234567.89", quantity |-> "5",
          duration_years |-> "1", duration_months |-> "6",
          submission_date |-> "2024-01-15", contact_phone |-> "02-123",
          contact_email |-> "a@b.th"]
    ELSE [ok |-> FALSE, budget_amount |-> NULL, quantity |-> NULL,
          duration_years |-> NULL, duration_months |-> NULL,
          submission_date |-> NULL, contact_phone |-> NULL,
          contact_email |-> NULL]

\* PDFProcessor._extract_pdf_data: the seven fields of the text, each its
\* own match or None; ok = FALSE when the file cannot be read as a PDF.
ExtractPdfData(content) ==
    CASE content = "full" ->
           [ok |-> TRUE, budget_amount |-> "1234567.89", quantity |-> "5",
            duration_years |-> "1", duration_months |-> "6",
            submission_date |-> "2024-01-15", contact_phone |-> "02-123",
            contact_email |-> "a@b.th"]
      [] content = "budget_only" ->
           [ok |-> TRUE, budget_amount |-> "500.00", quantity |-> NULL,
            duration_years |-> NULL, duration_months |-> NULL,
            submission_date |-> NULL, contact_phone |-> NULL,
            contact_email |-> NULL]
      [] OTHER ->
           [ok |-> FALSE, budget_amount |-> NULL, quantity |-> NULL,
            duration_years |-> NULL, duration_months |-> NULL,
            submission_date |-> NULL, contact_phone |-> NULL,
            contact_email |-> NULL]

\* ---------------------------------------------------------------- archives
\* The name of an archive entry is the sequence of its "/"-delimited parts
\* (str.split("/")): "/etc/passwd" is <<"", "etc", "passwd">>.
EntryNames ==
    { <<"a.txt">>, <<"docs", "b.pdf">>, <<"v1..2.txt">>,
      <<"..", "..", "etc", "passwd">>, <<"", "etc", "passwd">>,
      <<"docs", "..", "..", "x">> }

Archives == UNION { [1..n -> EntryNames] : n \in 0..MaxEntries }

\* The body of a download: a ZIP archive or bytes that are not one.
NoArchive  == [kind |-> "none", entries |-> << >>]
NotAnArchive == [kind |-> "garbage", entries |-> << >>]
ArchiveBodies ==
    {NotAnArchive} \cup { [kind |-> "zip", entries |-> e] : e \in Archives }

ZipResponses ==
    {[exc |-> TRUE, status |-> 0, body |-> NotAnArchive],
     [exc |-> FALSE, status |-> 503, body |-> NotAnArchive]}
    \cup [exc : {FALSE}, status : {HTTP_OK}, body : ArchiveBodies]

\* '..' in part, for the parts of EntryNames
ContainsDotDot(part) == part \in {"..", "v1..2.txt"}

\* The test without startswith('/').
MaliciousPath_NoAbsolute(name) ==
    \E i \in 1..Len(name) : ContainsDotDot(name[i])

\* '..' in zip_info.filename or zip_info.filename.startswith('/')
MaliciousPath(name) ==
    \/ \E i \in 1..Len(name) : ContainsDotDot(name[i])
    \/ name[1] = ""

\* An entry with an absolute path or with a parent-directory part.
UnsafeEntry(name) ==
    \/ name[1] = ""
    \/ \E i \in 1..Len(name) : name[i] = ".."

\* ZipFile.extractall(project_dir): every entry is written below
\* project_dir, its name without empty, "." and ".." parts.
ExtractAll(project, entries) ==
    LET valid(part) == part \notin {"", ".", ".."}
    IN  { <<project, SelectSeq(entries[i], valid)>> : i \in 1..Len(entries) }

\* ------------------------------------------------------- submission dates
\* A text is the sequence of its characters.  Digits are the Arabic ones and
\* the Thai ones, written "t0" .. "t9" for U+0E50 .. U+0E59.
ArabicDigits == <<"0", "1", "2", "3", "4", "5", "6", "7", "8", "9">>
ThaiDigits   == <<"t0", "t1", "t2", "t3", "t4", "t5", "t6", "t7", "t8", "t9">>

\* thai_to_arabic
ThaiToArabic ==
    [c \in {ThaiDigits[i] : i \in 1..10} |->
        CASE c = "t0" -> "0" [] c = "t1" -> "1" [] c = "t2" -> "2"
          [] c = "t3" -> "3" [] c = "t4" -> "4" [] c = "t5" -> "5"
          [] c = "t6" -> "6" [] c = "t7" -> "7" [] c = "t8" -> "8"
          [] c = "t9" -> "9"]

\* thai_months: the month names (transliterated) and their two-digit numbers
ThaiMonths ==
    [makarakhom |-> <<"0", "1">>, kumphaphan |-> <<"0", "2">>,
     minakhom |-> <<"0", "3">>, mesayon |-> <<"0", "4">>,
     phruetsaphakhom |-> <<"0", "5">>, mithunayon |-> <<"0", "6">>,
     karakadakhom |-> <<"0", "7">>, singhakhom |-> <<"0", "8">>,
     kanyayon |-> <<"0", "9">>, tulakhom |-> <<"1", "0">>,
     phruetsachikayon |-> <<"1", "1">>, thanwakhom |-> <<"1", "2">>]

\* convert_numerals: thai_to_arabic.get(char, char) for every character
ConvertNumerals(text) ==
    [i \in 1..Len(text) |->
        IF text[i] \in DOMAIN ThaiToArabic THEN ThaiToArabic[text[i]]
        ELSE text[i]] \o << >>

\* str.zfill(2)
Zfill2(text) == IF Len(text) < 2 THEN <<"0">> \o text ELSE text

\* \d of a str pattern: a decimal digit of any script
IsDigit(c) ==
    \E v \in 1..10 : c = ArabicDigits[v] \/ c = ThaiDigits[v]

DigitValue(c) ==
    (CHOOSE v \in 1..10 : c = ArabicDigits[v] \/ c = ThaiDigits[v]) - 1

\* int(text) for a text of decimal digits
RECURSIVE IntOf(_)
IntOf(text) ==
    IF text = << >> THEN 0
    ELSE 10 * IntOf(SubSeq(text, 1, Len(text) - 1))
           + DigitValue(text[Len(text)])

\* str(n)
RECURSIVE StrOfNat(_)
StrOfNat(n) ==
    IF n < 10 THEN <<ArabicDigits[n + 1]>>
    ELSE StrOfNat(n \div 10) \o <<ArabicDigits[(n % 10) + 1]>>

StrOf(n) == IF n < 0 THEN <<"-">> \o StrOfNat(0 - n) ELSE StrOfNat(n)

IsLeap(y) == (y % 4 = 0 /\ y % 100 # 0) \/ y % 400 = 0

DaysInMonth(y, m) ==
    IF m = 2 THEN (IF IsLeap(y) THEN 29 ELSE 28)
    ELSE IF m \in {4, 6, 9, 11} THEN 30 ELSE 31

NoDate == [year |-> 0, month |-> 0, day |-> 0]

\* datetime.strptime(f"{y}-{m}-{d}", '%Y-%m-%d'), NoDate for ValueError:
\* %Y is four digits, %m is 1[0-2]|0[1-9]|[1-9], %d is
\* 3[01]|[12]\d|0[1-9]|[1-9]; the year is at least MINYEAR and the day
\* exists in the month.
Strptime(y, m, d) ==
    LET digits(t) == \A i \in 1..Len(t) : IsDigit(t[i])
        yOk == Len(y) = 4 /\ digits(y)
        mOk == Len(m) \in {1, 2} /\ digits(m) /\ IntOf(m) \in 1..12
                 /\ ~(Len(m) = 2 /\ DigitValue(m[1]) > 1)
        dOk == Len(d) \in {1, 2} /\ digits(d) /\ IntOf(d) \in 1..31
    IN  IF yOk /\ mOk /\ dOk
        THEN IF IntOf(y) >= 1 /\ IntOf(d) <= DaysInMonth(IntOf(y), IntOf(m))
             THEN [year |-> IntOf(y), month |-> IntOf(m), day |-> IntOf(d)]
             ELSE NoDate
        ELSE NoDate

\* PDFProcessor._extract_submission_date for a text that matches the
\* pattern with the groups day, month and year: the date, NoDate for None.
ExtractSubmissionDate(day, month, year) ==
    LET d == Zfill2(ConvertNumerals(day))
        m == ThaiMonths[month]
        y == StrOf(IntOf(ConvertNumerals(year)) - 543)
    IN  Strptime(y, m, d)

\* The days, months and Buddhist-era years of the matched texts.
DayTexts ==
    { <<"5">>, <<"1", "5">>, <<"t1", "t5">>, <<"t3", "1">>, <<"3", "0">>,
      <<"2", "9">>, <<"0">>, <<"3", "2">> }
MonthTexts == {"makarakhom", "kumphaphan", "mesayon", "thanwakhom"}
YearTexts ==
    { <<"2", "5", "6", "7">>, <<"t2", "t5", "t6", "t7">>,
      <<"2", "5", "6", "6">>, <<"2", "6", "4", "3">>,
      <<"1", "0", "0", "0">>, <<"0", "5", "4", "3">>, <<"0", "5", "0", "0">> }

\* ------------------------------------------------------------ base repository
RETRY_DELAY_MS == 100    \* BaseRepository.RETRY_DELAY, in milliseconds

\* ------------------------------------------------------------------- state
VARIABLES
    table,      \* the announcements table, row i has id i
    clock,      \* datetime.now(), advanced by every store write
    files,      \* the PDF cache: project_id -> file content
    cur,        \* the task holding the event loop, or None
    runs,       \* Orchestrator.run invocations so far
    orch,       \* PipelineOrchestrator._status, _results
    pc,         \* position of each department task
    feed,       \* FeedProcessor of each department task
    pdf,        \* PDFProcessor of each department task
    dres,       \* dept_results of each department task
    lastWrite,  \* the write statement the latest step gave the store, if any
    zip,        \* the call of DocumentProcessor._process_zip_file
    disk,       \* files extracted from archives: <<project_id, path>>
    doc,        \* DocumentProcessor: its status
    sd,         \* the call of PDFProcessor._extract_submission_date
    bq,         \* the call of BaseRepository.execute_query
    px,         \* the processors of each department and their execute
    svc         \* the latest call PipelineService.start_pipeline rejected

zipvars == <<zip, disk, doc>>
fnvars == <<sd, bq, px, svc>>
vars == <<table, clock, files, cur, runs, orch, pc, feed, pdf, dres, lastWrite,
          zip, disk, doc, sd, bq, px, svc>>

NoFeedResult == [processed |-> 0, new |-> 0, updated |-> 0, error |-> FALSE]
FeedError    == [processed |-> 0, new |-> 0, updated |-> 0, error |-> TRUE]
NoPdfResult  == [total |-> 0, downloaded |-> 0, processed |-> 0, failed |-> 0]

FeedInit ==
    [status |-> PENDING, lock |-> FALSE, fetchFailed |-> FALSE,
     opened |-> FALSE, anns |-> << >>, idx |-> 0, prs |-> << >>,
     good |-> 0, ups |-> 0, ins |-> 0, result |-> NoFeedResult]

PdfInit ==
    [status |-> PENDING, lock |-> FALSE, snapshot |-> << >>, idx |-> 0,
     body |-> "", results |-> NoPdfResult, acqFailed |-> {},
     extFailed |-> {}, raised |-> FALSE]

\* unacquired: the announcements whose document the stage could not acquire.
NoStage ==
    [ran |-> FALSE, status |-> PENDING, error |-> FALSE, unacquired |-> {}]
DresInit == [error |-> FALSE, feed |-> NoStage, pdf |-> NoStage]

NoWrite == [op |-> "none", busy |-> 0, attempts |-> 0, error |-> FALSE]

ZipInit ==
    [pc |-> "idle", project |-> None, body |-> NoArchive, temp |-> FALSE,
     ret |-> "none", unsafe |-> FALSE, safe |-> 0, before |-> {}, calls |-> 0]

DateInit ==
    [pc |-> "idle", day |-> << >>, month |-> "", year |-> << >>,
     result |-> NoDate]

QueryInit ==
    [pc |-> "idle", busy |-> 0, locked |-> TRUE, retries |-> 0,
     attempts |-> 0, delays |-> << >>]

\* BaseProcessor.__init__; exc is the exception process raised in the call
\* of execute, reraised tells that execute let it through to its caller.
ProcessorInit ==
    [pc |-> "new", status |-> PENDING, error |-> NULL, start_time |-> NULL,
     end_time |-> NULL, exc |-> NULL, reraised |-> FALSE]

\* The processors of a department task.
ProcessorNames == {"FeedProcessor", "PDFProcessor"}

\* No call of start_pipeline was rejected.
ServiceInit == [raised |-> FALSE, ids |-> {}]

Init ==
    /\ table = << >>
    /\ clock = 0
    /\ files = [p \in Projects |-> NoFile]
    /\ cur = None
    /\ runs = 0
    /\ orch = [status |-> PENDING, results |-> [d \in Depts |-> DresInit],
               ran |-> {}, calls |-> {}, end_time |-> NULL]
    /\ pc = [d \in Depts |-> "idle"]
    /\ feed = [d \in Depts |-> FeedInit]
    /\ pdf = [d \in Depts |-> PdfInit]
    /\ dres = [d \in Depts |-> DresInit]
    /\ lastWrite = NoWrite
    /\ zip = ZipInit
    /\ disk = {}
    /\ doc = [status |-> PENDING]
    /\ sd = DateInit
    /\ bq = QueryInit
    /\ px = [d \in Depts |-> [n \in ProcessorNames |-> ProcessorInit]]
    /\ svc = ServiceInit

\* ------------------------------------------------------------ orchestrator
\* PipelineOrchestrator.run up to the gather: every department task starts
\* and runs to its first await, the feed request of FeedProcessor.execute.
RunStart(ds) ==
    /\ cur = None
    /\ \A d \in Depts : pc[d] = "idle"
    /\ runs < MaxRuns
    /\ clock < MaxClock
    /\ ds # {}
    /\ runs' = runs + 1
    /\ orch' = [orch EXCEPT !.status = PROCESSING, !.calls = @ \cup {ds}]
    /\ pc' = [d \in Depts |-> IF d \in ds THEN "feed_http" ELSE "idle"]
    /\ feed' = [d \in Depts |->
                  IF d \in ds THEN [FeedInit EXCEPT !.status = PROCESSING]
                  ELSE FeedInit]
    /\ pdf' = [d \in Depts |-> PdfInit]
    /\ dres' = [d \in Depts |-> DresInit]
    /\ UNCHANGED <<table, clock, files, cur>>
    /\ lastWrite' = NoWrite
    /\ UNCHANGED <<zipvars, fnvars>>

\* PipelineOrchestrator.run after the gather: results recorded, status
\* completed, the summary returned; `finally` records the end time.
RunEnd ==
    /\ cur = None
    /\ orch.status = PROCESSING
    /\ \A d \in Depts : pc[d] \in {"idle", "done"}
    /\ \E d \in Depts : pc[d] = "done"
    /\ orch' = [status |-> COMPLETED,
                results |-> [d \in Depts |->
                               IF pc[d] = "done" THEN dres[d] ELSE DresInit],
                ran |-> {d \in Depts : pc[d] = "done"}, calls |-> {},
                end_time |-> "now"]
    /\ pc' = [d \in Depts |-> "idle"]
    /\ UNCHANGED <<table, clock, files, cur, runs, feed, pdf, dres>>
    /\ lastWrite' = NoWrite
    /\ UNCHANGED <<zipvars, fnvars>>

\* PipelineOrchestrator.run called while other calls of run may be in flight
\* on the same orchestrator (a scheduled job and run_manual): the call over
\* the departments ds starts its tasks; orch.calls holds `departments` of
\* every call in flight.
RunCall(ds) ==
    /\ cur = None
    /\ ds # {}
    /\ \A d \in ds : pc[d] = "idle"
    /\ runs < MaxRuns
    /\ clock < MaxClock
    /\ runs' = runs + 1
    /\ orch' = [orch EXCEPT !.status = PROCESSING, !.calls = @ \cup {ds}]
    /\ pc' = [d \in Depts |-> IF d \in ds THEN "feed_http" ELSE pc[d]]
    /\ feed' = [d \in Depts |->
                  IF d \in ds THEN [FeedInit EXCEPT !.status = PROCESSING]
                  ELSE IF pc[d] = "idle" THEN FeedInit ELSE feed[d]]
    /\ pdf' = [d \in Depts |-> IF d \in ds \/ pc[d] = "idle" THEN PdfInit
                                ELSE pdf[d]]
    /\ dres' = [d \in Depts |-> IF d \in ds \/ pc[d] = "idle" THEN DresInit
                                 ELSE dres[d]]
    /\ UNCHANGED <<table, clock, files, cur>>
    /\ lastWrite' = NoWrite
    /\ UNCHANGED <<zipvars, fnvars>>

\* The gather of the call over ds is over: its results are recorded, the
\* status is set to completed and the summary returned.
RunReturn(ds) ==
    /\ cur = None
    /\ ds \in orch.calls
    /\ \A d \in ds : pc[d] = "done"
    /\ orch' = [status |-> COMPLETED,
                results |-> [d \in Depts |->
                               IF d \in ds THEN dres[d] ELSE DresInit],
                ran |-> ds, calls |-> orch.calls \ {ds}, end_time |-> "now"]
    /\ pc' = [d \in Depts |-> IF d \in ds THEN "idle" ELSE pc[d]]
    /\ UNCHANGED <<table, clock, files, cur, runs, feed, pdf, dres>>
    /\ lastWrite' = NoWrite
    /\ UNCHANGED <<zipvars, fnvars>>

\* ---------------------------------------------------------------- feed stage
\* The feed cannot be fetched: the request raises, the status is not 200, or
\* the body is empty.
FetchFails(resp) ==
    resp.exc \/ resp.status # HTTP_OK \/ resp.body.kind = "empty"

\* An item with a resolvable project_id: its description is not empty and
\* the text before the first comma is not blank.
Resolvable(item) ==
    /\ item.description # << >>
    /\ item.description[1] \notin {"", " "}

CountTrue(bs) == Cardinality({i \in 1..Len(bs) : bs[i]})

\* The dict FeedProcessor.process returns after the loop.
FeedResult(prs) ==
    [processed |-> Len(prs), new |-> CountTrue(prs),
     updated |-> Len(prs) - CountTrue(prs), error |-> FALSE]

\* FeedProcessor.process from the answer of the feed request to the entry
\* of the repository context.
FeedResponse(t, resp, opened) ==
    /\ cur = None
    /\ pc[t] = "feed_http"
    /\ cur' = t
    /\ LET content == FetchFeed(resp)
           ghost == [feed[t] EXCEPT
                       !.fetchFailed = FetchFails(resp),
                       !.good = Cardinality({i \in 1..Len(resp.body.items) :
                                    Resolvable(resp.body.items[i])})]
       IN  IF FeedContentMissing(content)
           THEN /\ feed' = [feed EXCEPT ![t] = [ghost EXCEPT !.result = FeedError]]
                /\ pc' = [pc EXCEPT ![t] = "feed_done"]
           ELSE IF ~opened
           THEN \* sqlite3.connect raises in __aenter__: the outer handler
                /\ feed' = [feed EXCEPT ![t] = [ghost EXCEPT !.result = FeedError]]
                /\ pc' = [pc EXCEPT ![t] = "feed_done"]
           ELSE /\ feed' = [feed EXCEPT ![t] =
                              [ghost EXCEPT !.opened = TRUE, !.lock = TRUE,
                                            !.anns = ParseFeed(content),
                                            !.idx = 1]]
                /\ pc' = [pc EXCEPT ![t] = "feed_store"]
    /\ UNCHANGED <<table, clock, files, runs, orch, pdf, dres>>
    /\ lastWrite' = NoWrite
    /\ UNCHANGED <<zipvars, fnvars>>

\* is_new reported for every saved item.
IsNew_Always(existing) == TRUE

\* "is_new": not existing
IsNew(existing) == existing.id = 0

\* No handler around one item: the exception propagates.
ItemHandler_Propagate == "propagate"

\* The handler around one item: `except Exception: ... continue`.
ItemHandler == "continue"

\* One iteration of the loop over the parsed items: get_by_project_id, then
\* upsert; an exception is logged and the loop continues.
FeedItem(t, busy) ==
    /\ cur = t
    /\ pc[t] = "feed_store"
    /\ feed[t].idx <= Len(feed[t].anns)
    /\ LET data == feed[t].anns[feed[t].idx]
           a == NewAnnouncement(data, t)
           existing == GetByProjectId(table, a.project_id)
           q == ExecuteQuery(busy)
           w == [op |-> "upsert", busy |-> busy, attempts |-> q.attempts,
                 error |-> q.error]
       IN  /\ lastWrite' = w
           /\ IF q.error /\ ItemHandler = "continue"
              THEN /\ feed' = [feed EXCEPT ![t].idx = @ + 1,
                                           ![t].good = @ - 1]
                   /\ UNCHANGED <<table, clock, pc>>
              ELSE IF q.error
              THEN \* the exception leaves the loop and the repository context
                   \* and reaches the handler of process
                   /\ feed' = [feed EXCEPT ![t].lock = FALSE,
                                           ![t].good = @ - 1,
                                           ![t].result = FeedError]
                   /\ pc' = [pc EXCEPT ![t] = "feed_done"]
                   /\ UNCHANGED <<table, clock>>
              ELSE /\ clock < MaxClock
                   /\ clock' = clock + 1
                   /\ table' = Upsert(table, a, clock + 1)
                   /\ feed' = [feed EXCEPT
                                 ![t].idx = @ + 1,
                                 ![t].ups = @ + 1,
                                 ![t].ins = @ + (Len(table') - Len(table)),
                                 ![t].prs = Append(@, IsNew(existing))]
                   /\ pc' = pc
    /\ UNCHANGED <<files, cur, runs, orch, pdf, dres>>
    /\ UNCHANGED <<zipvars, fnvars>>

\* The loop is over: __aexit__ commits and releases the lock, the counts
\* are returned.
FeedReturn(t) ==
    /\ cur = t
    /\ pc[t] = "feed_store"
    /\ feed[t].idx > Len(feed[t].anns)
    /\ feed' = [feed EXCEPT ![t].lock = FALSE,
                            ![t].result = FeedResult(feed[t].prs)]
    /\ pc' = [pc EXCEPT ![t] = "feed_done"]
    /\ UNCHANGED <<table, clock, files, cur, runs, orch, pdf, dres>>
    /\ lastWrite' = NoWrite
    /\ UNCHANGED <<zipvars, fnvars>>

\* ----------------------------------------------------------------- PDF stage
\* No handler in _process_department: the exception of a stage reaches
\* gather and run.
DeptHandler_Propagate == "propagate"

\* The handler of _process_department: `except Exception` returns
\* {"error": str(e)}.
DeptHandler == "return_error"

\* BaseProcessor.execute ends the feed stage, _process_department records it
\* and starts PDFProcessor: the repository context is entered and the
\* pending announcements are read.
RECURSIVE NewestFirst(_, _)
NewestFirst(tbl, ids) ==
    IF ids = {} THEN << >>
    ELSE LET i == CHOOSE x \in ids : \A y \in ids :
                     \/ tbl[x].created_at > tbl[y].created_at
                     \/ tbl[x].created_at = tbl[y].created_at /\ x <= y
         IN  <<tbl[i]>> \o NewestFirst(tbl, ids \ {i})

\* The selection with LIMIT 1: the newest pending row alone.
GetPendingProcessing_NewestOnly(tbl) ==
    LET all == NewestFirst(tbl, {i \in 1..Len(tbl) : tbl[i].status = PENDING})
    IN  IF all = << >> THEN << >> ELSE <<all[1]>>

\* AnnouncementRepository.get_pending_processing:
\* WHERE status = 'pending' ORDER BY created_at DESC
GetPendingProcessing(tbl) ==
    NewestFirst(tbl, {i \in 1..Len(tbl) : tbl[i].status = PENDING})

\* The PDF stage started without awaiting the end of the feed stage.
FeedStageOver_NoAwait(t) == pc[t] \in {"feed_store", "feed_done"}

\* `await feed_processor.execute(dept_id)` has returned.
FeedStageOver(t) == pc[t] = "feed_done"

PdfBegin(t, opened) ==
    /\ cur = t
    /\ FeedStageOver(t)
    /\ feed' = [feed EXCEPT ![t] = [FeedInit EXCEPT !.status = COMPLETED]]
    /\ IF opened
       THEN /\ pdf' = [pdf EXCEPT ![t] =
                         [PdfInit EXCEPT
                            !.status = PROCESSING, !.lock = TRUE,
                            !.snapshot = GetPendingProcessing(table),
                            !.idx = 1,
                            !.results = [NoPdfResult EXCEPT
                               !.total = Len(GetPendingProcessing(table))]]]
            /\ dres' = [dres EXCEPT ![t].feed =
                           [ran |-> TRUE, status |-> COMPLETED,
                            error |-> feed[t].result.error,
                            unacquired |-> {}]]
            /\ orch' = orch
            /\ pc' = [pc EXCEPT ![t] = "pdf_loop"]
            /\ cur' = cur
       ELSE \* the store cannot be opened: process raises, execute marks the
            \* processor failed, _process_department returns {"error": ...}
            /\ pdf' = [pdf EXCEPT ![t] = [PdfInit EXCEPT !.status = FAILED]]
            /\ dres' = [dres EXCEPT ![t] = [DresInit EXCEPT !.error = TRUE]]
            /\ orch' = IF DeptHandler = "return_error" THEN orch
                       ELSE [orch EXCEPT !.status = FAILED]
            /\ pc' = [pc EXCEPT ![t] = "done"]
            /\ cur' = None
    /\ UNCHANGED <<table, clock, files, runs>>
    /\ lastWrite' = NoWrite
    /\ UNCHANGED <<zipvars, fnvars>>

\* _download_pdf up to its await: the cached file is returned at once,
\* otherwise the request is sent and the task suspends.
PdfNext(t) ==
    /\ cur = t
    /\ pc[t] = "pdf_loop"
    /\ pdf[t].idx <= Len(pdf[t].snapshot)
    /\ LET a == pdf[t].snapshot[pdf[t].idx]
       IN  IF files[a.project_id] # NoFile
           THEN /\ pc' = [pc EXCEPT ![t] = "pdf_extract"]
                /\ cur' = cur
           ELSE /\ pc' = [pc EXCEPT ![t] = "pdf_http"]
                /\ cur' = None
    /\ UNCHANGED <<table, clock, files, runs, orch, feed, pdf, dres>>
    /\ lastWrite' = NoWrite
    /\ UNCHANGED <<zipvars, fnvars>>

\* The document cannot be acquired: the request raises, the status is not
\* 200, or the body is empty.
AcquisitionFails(r) == r.exc \/ r.status # HTTP_OK \/ r.body = ""

\* The download without the test of the content: every 200 body is written.
DownloadGivesBody_AnyOk(r) ==
    IF r.exc THEN FALSE
    ELSE r.status = HTTP_OK

\* _download_pdf after the request: a non-empty 200 body is written to the
\* path, everything else gives None.
DownloadGivesBody(r) ==
    IF r.exc THEN FALSE
    ELSE IF r.status = HTTP_OK THEN r.body # ""
    ELSE FALSE

\* The loop stays at the announcement whose download failed and tries again.
AfterFailedDownload_Retry(idx) == idx

\* `continue` after a failed download: the next announcement of the list.
AfterFailedDownload(idx) == idx + 1

\* The answer of the download arrives.  Without a body the announcement is
\* logged and the loop continues; with one, aiofiles.open(pdf_path, 'wb')
\* creates the file, empty, and the task stays suspended in the write.
PdfResponse(t, r) ==
    /\ cur = None
    /\ pc[t] = "pdf_http"
    /\ LET a == pdf[t].snapshot[pdf[t].idx]
       IN  IF DownloadGivesBody(r)
           THEN /\ pdf' = [pdf EXCEPT ![t].body = r.body]
                /\ files' = [files EXCEPT ![a.project_id] = EmptyFile]
                /\ pc' = [pc EXCEPT ![t] = "pdf_write"]
                /\ cur' = None
           ELSE /\ pdf' = [pdf EXCEPT
                             ![t].idx = AfterFailedDownload(@),
                             ![t].acqFailed =
                                 IF AcquisitionFails(r) THEN @ \cup {a.id} ELSE @]
                /\ pc' = [pc EXCEPT ![t] = "pdf_loop"]
                /\ cur' = t
                /\ files' = files
    /\ UNCHANGED <<table, clock, runs, orch, feed, dres>>
    /\ lastWrite' = NoWrite
    /\ UNCHANGED <<zipvars, fnvars>>

\* The body is written and the file closed; _download_pdf returns the path.
PdfFileWritten(t) ==
    /\ cur = None
    /\ pc[t] = "pdf_write"
    /\ files' = [files EXCEPT ![pdf[t].snapshot[pdf[t].idx].project_id] = pdf[t].body]
    /\ pdf' = [pdf EXCEPT ![t].body = ""]
    /\ pc' = [pc EXCEPT ![t] = "pdf_extract"]
    /\ cur' = t
    /\ UNCHANGED <<table, clock, runs, orch, feed, dres>>
    /\ lastWrite' = NoWrite
    /\ UNCHANGED <<zipvars, fnvars>>

\* announcement.update(**extracted_data), status and pdf_path set
Enriched(a, e) ==
    [a EXCEPT !.budget_amount = e.budget_amount, !.quantity = e.quantity,
              !.duration_years = e.duration_years,
              !.duration_months = e.duration_months,
              !.submission_date = e.submission_date,
              !.contact_phone = e.contact_phone,
              !.contact_email = e.contact_email,
              !.status = COMPLETED, !.pdf_path = PdfPath(a.project_id)]

\* The counts with "processed" incremented before the write of the row.
Counted_BeforeWrite(results, ok, rejected) ==
    [results EXCEPT !.downloaded = @ + 1,
                    !.processed = IF ok THEN @ + 1 ELSE @,
                    !.failed = IF ok /\ ~rejected THEN @ ELSE @ + 1]

\* The counts after one announcement whose document was acquired:
\* "downloaded" before the extraction, "processed" after an update that
\* the store accepted, "failed" after an accepted update_status or, once,
\* in the handler when the write was rejected.
Counted(results, ok, rejected) ==
    [results EXCEPT !.downloaded = @ + 1,
                    !.processed = IF ok /\ ~rejected THEN @ + 1 ELSE @,
                    !.failed = IF ok /\ ~rejected THEN @ ELSE @ + 1]

\* The rest of one loop iteration: extraction, then update (completed) or
\* update_status (failed); an exception is counted and update_status(FAILED)
\* is issued from the handler, where a second exception leaves process.
\* b1, b2: the busy answers of the store to the first and to the handler's
\* write.
PdfExtract(t, b1, b2) ==
    /\ cur = t
    /\ pc[t] = "pdf_extract"
    /\ LET a == pdf[t].snapshot[pdf[t].idx]
           e == ExtractPdfData(files[a.project_id])
           q1 == ExecuteQuery(b1)
           q2 == ExecuteQuery(b2)
           op1 == IF e.ok THEN "update" ELSE "update_status"
           w1 == [op |-> op1, busy |-> b1, attempts |-> q1.attempts,
                  error |-> q1.error]
           w2 == [op |-> "update_status", busy |-> b2, attempts |-> q2.attempts,
                  error |-> q2.error]
           ext == IF e.ok THEN pdf[t].extFailed ELSE pdf[t].extFailed \cup {a.id}
       IN  IF ~q1.error
           THEN /\ b2 = 0
                /\ clock < MaxClock
                /\ clock' = clock + 1
                /\ table' = IF e.ok THEN Update(table, Enriched(a, e), clock + 1)
                            ELSE UpdateStatus(table, a.id, FAILED, clock + 1)
                /\ pdf' = [pdf EXCEPT
                             ![t].idx = @ + 1, ![t].extFailed = ext,
                             ![t].results = Counted(@, e.ok, FALSE)]
                /\ lastWrite' = w1
                /\ pc' = [pc EXCEPT ![t] = "pdf_loop"]
                /\ UNCHANGED <<cur, dres>>
           ELSE IF ~q2.error
           THEN /\ clock < MaxClock
                /\ clock' = clock + 1
                /\ table' = UpdateStatus(table, a.id, FAILED, clock + 1)
                /\ pdf' = [pdf EXCEPT
                             ![t].idx = @ + 1, ![t].extFailed = ext,
                             ![t].results = Counted(@, e.ok, TRUE)]
                /\ lastWrite' = w2
                /\ pc' = [pc EXCEPT ![t] = "pdf_loop"]
                /\ UNCHANGED <<cur, dres>>
           ELSE \* the handler's update_status raises: __aexit__ rolls back,
                \* process raises, _process_department returns {"error": ...}
                /\ pdf' = [pdf EXCEPT
                             ![t].lock = FALSE, ![t].raised = TRUE,
                             ![t].extFailed = ext,
                             ![t].results = Counted(@, e.ok, TRUE)]
                /\ pc' = [pc EXCEPT ![t] = "pdf_done"]
                /\ lastWrite' = w2
                /\ UNCHANGED <<table, clock, cur, dres>>
    /\ UNCHANGED <<files, runs, orch, feed>>
    /\ UNCHANGED <<zipvars, fnvars>>

\* The loop is over: __aexit__ commits and releases the lock, the counts
\* are returned.
PdfReturn(t) ==
    /\ cur = t
    /\ pc[t] = "pdf_loop"
    /\ pdf[t].idx > Len(pdf[t].snapshot)
    /\ pdf' = [pdf EXCEPT ![t].lock = FALSE]
    /\ pc' = [pc EXCEPT ![t] = "pdf_done"]
    /\ lastWrite' = NoWrite
    /\ UNCHANGED <<table, clock, files, cur, runs, orch, feed, dres>>
    /\ UNCHANGED <<zipvars, fnvars>>

\* BaseProcessor.execute ends the PDF stage (completed, or failed and
\* re-raised) and _process_department returns: dept_results with both
\* stages, or {"error": ...} alone when the stage raised.
DeptReturn(t) ==
    /\ cur = t
    /\ pc[t] = "pdf_done"
    /\ pdf' = [pdf EXCEPT ![t] =
                  [PdfInit EXCEPT !.status = IF pdf[t].raised THEN FAILED
                                            ELSE COMPLETED]]
    /\ dres' = [dres EXCEPT ![t] =
                   IF pdf[t].raised THEN [DresInit EXCEPT !.error = TRUE]
                   ELSE [@ EXCEPT !.pdf = [ran |-> TRUE, status |-> COMPLETED,
                                           error |-> FALSE,
                                           unacquired |-> pdf[t].acqFailed]]]
    /\ orch' = IF pdf[t].raised /\ DeptHandler # "return_error"
               THEN [orch EXCEPT !.status = FAILED]
               ELSE orch
    /\ pc' = [pc EXCEPT ![t] = "done"]
    /\ cur' = None
    /\ lastWrite' = NoWrite
    /\ UNCHANGED <<table, clock, files, runs, feed>>
    /\ UNCHANGED <<zipvars, fnvars>>

\* ------------------------------------------------------- document processor
\* The row create_test_announcement inserts for a project.
TestAnnouncement(project) ==
    NewAnnouncement([project_id |-> project, title |-> "Test Announcement",
                     link |-> "l1", description |-> <<"Test Description">>],
                    NULL)

\* The driver of the document processor for one project: the test
\* announcement is created unless a row exists, then _process_zip_file runs
\* up to its await, the download request.
ZipCall(project) ==
    /\ cur = None
    /\ \A d \in Depts : pc[d] = "idle"
    /\ zip.pc \in {"idle", "zip_done"}
    /\ zip.calls < MaxZipCalls
    /\ IF GetByProjectId(table, project) = NoRow
       THEN /\ clock < MaxClock
            /\ clock' = clock + 1
            /\ table' = Append(table, [TestAnnouncement(project) EXCEPT
                                          !.id = Len(table) + 1,
                                          !.created_at = clock + 1,
                                          !.updated_at = clock + 1])
       ELSE UNCHANGED <<table, clock>>
    /\ zip' = [ZipInit EXCEPT !.pc = "zip_http", !.project = project,
                              !.before = disk, !.calls = zip.calls + 1]
    /\ UNCHANGED <<files, cur, runs, orch, pc, feed, pdf, dres, disk, doc>>
    /\ lastWrite' = NoWrite
    /\ UNCHANGED fnvars

\* The answer of the download: an exception reaches the handler and None is
\* returned, another status than 200 returns None, a 200 answer opens the
\* temporary file for writing.
ZipResponse(r) ==
    /\ zip.pc = "zip_http"
    /\ IF r.exc \/ r.status # HTTP_OK
       THEN zip' = [zip EXCEPT !.pc = "zip_done", !.ret = None]
       ELSE zip' = [zip EXCEPT
                      !.pc = "zip_write", !.temp = TRUE, !.body = r.body,
                      !.unsafe = \E i \in 1..Len(r.body.entries) :
                                    UnsafeEntry(r.body.entries[i]),
                      !.safe = Cardinality({i \in 1..Len(r.body.entries) :
                                    ~UnsafeEntry(r.body.entries[i])})]
    /\ UNCHANGED <<table, clock, files, cur, runs, orch, pc, feed, pdf, dres,
                   disk, doc>>
    /\ lastWrite' = NoWrite
    /\ UNCHANGED fnvars

\* The body is written to the temporary file and the file closed.
ZipSaved ==
    /\ zip.pc = "zip_write"
    /\ zip' = [zip EXCEPT !.pc = "zip_open"]
    /\ UNCHANGED <<table, clock, files, cur, runs, orch, pc, feed, pdf, dres,
                   disk, doc>>
    /\ lastWrite' = NoWrite
    /\ UNCHANGED fnvars

\* The archive is opened and its entries are tested; extractall runs when
\* no entry is malicious.  BadZipFile and ValueError reach the handler,
\* which removes the temporary file and returns None.
ZipExtract ==
    /\ zip.pc = "zip_open"
    /\ LET entries == zip.body.entries
           bad == \/ zip.body.kind # "zip"
                  \/ \E i \in 1..Len(entries) : MaliciousPath(entries[i])
       IN  IF bad
           THEN /\ zip' = [zip EXCEPT !.pc = "zip_done", !.temp = FALSE,
                                      !.body = NoArchive, !.ret = None]
                /\ disk' = disk
           ELSE /\ zip' = [zip EXCEPT !.pc = "zip_done", !.temp = FALSE,
                                      !.body = NoArchive, !.ret = "project_dir"]
                /\ disk' = disk \cup ExtractAll(zip.project, entries)
    /\ UNCHANGED <<table, clock, files, cur, runs, orch, pc, feed, pdf, dres,
                   doc>>
    /\ lastWrite' = NoWrite
    /\ UNCHANGED fnvars

\* DocumentProcessor.execute: process iterates the coroutine object that
\* the un-awaited get_pending_processing() returns, TypeError is raised
\* before any announcement is looked at, execute marks the processor failed.
DocExecute ==
    /\ cur = None
    /\ \A d \in Depts : pc[d] = "idle"
    /\ doc.status = PENDING
    /\ doc' = [status |-> FAILED]
    /\ UNCHANGED <<table, clock, files, cur, runs, orch, pc, feed, pdf, dres,
                   zip, disk>>
    /\ lastWrite' = NoWrite
    /\ UNCHANGED fnvars

\* ------------------------------------------------------- pure functions
pipevars == <<table, clock, files, cur, runs, orch, pc, feed, pdf, dres,
              lastWrite>>

\* The pattern has matched a text: the groups are taken.
DateCall(day, month, year) ==
    /\ sd.pc \in {"idle", "done"}
    /\ sd' = [pc |-> "matched", day |-> day, month |-> month, year |-> year,
              result |-> NoDate]
    /\ UNCHANGED <<pipevars, zipvars, bq, px, svc>>

\* The groups are converted and parsed; the date or None is returned.
DateReturn ==
    /\ sd.pc = "matched"
    /\ sd' = [sd EXCEPT !.pc = "done",
                        !.result = ExtractSubmissionDate(sd.day, sd.month,
                                                         sd.year)]
    /\ UNCHANGED <<pipevars, zipvars, bq, px, svc>>

\* BaseRepository.execute_query is called for a statement that the store
\* rejects `busy` times, with "database is locked" (locked) or with another
\* OperationalError.
BaseQueryCall(busy, locked) ==
    /\ bq.pc \in {"idle", "returned", "raised"}
    /\ bq' = [QueryInit EXCEPT !.pc = "trying", !.busy = busy,
                               !.locked = locked]
    /\ UNCHANGED <<pipevars, zipvars, sd, px, svc>>

\* One pass of the while loop: cursor.execute returns the cursor, or it
\* raises; a lock error is counted and, below MAX_RETRIES, slept on for
\* RETRY_DELAY * (2 ** retries); everything else is re-raised.
BaseQueryAttempt ==
    /\ bq.pc = "trying"
    /\ bq.retries < MAX_RETRIES
    /\ IF bq.busy = 0
       THEN bq' = [bq EXCEPT !.pc = "returned", !.attempts = @ + 1]
       ELSE IF bq.locked /\ bq.retries + 1 < MAX_RETRIES
       THEN bq' = [bq EXCEPT
                     !.pc = "sleeping", !.attempts = @ + 1,
                     !.busy = @ - 1, !.retries = @ + 1,
                     !.delays = Append(@, RETRY_DELAY_MS * 2^(bq.retries + 1))]
       ELSE bq' = [bq EXCEPT
                     !.pc = "raised", !.attempts = @ + 1,
                     !.retries = IF bq.locked THEN @ + 1 ELSE @]
    /\ UNCHANGED <<pipevars, zipvars, sd, px, svc>>

\* asyncio.sleep is over: `continue`.
BaseQueryWake ==
    /\ bq.pc = "sleeping"
    /\ bq' = [bq EXCEPT !.pc = "trying"]
    /\ UNCHANGED <<pipevars, zipvars, sd, px, svc>>

\* The messages of the exceptions process raises.
Errors == {"e1", "e2"}

\* The handler of execute leaves the status as it is.
StatusOnError_Unset == PROCESSING

\* except Exception: self._status = Status.FAILED
StatusOnError == FAILED

\* BaseProcessor.execute of processor n of department d up to
\* `await self.process(dept_id)`.
ExecuteCall(d, n) ==
    /\ px[d][n].pc = "new"
    /\ px' = [px EXCEPT ![d][n] = [@ EXCEPT !.pc = "in_process",
                                            !.start_time = "now",
                                            !.status = PROCESSING]]
    /\ UNCHANGED <<pipevars, zipvars, sd, bq, svc>>

\* process returns, or it raises the exception of message e: the status
\* is set, the message kept and the exception re-raised; `finally` sets
\* the end time on both paths.
ExecuteEnd(d, n, raises, e) ==
    /\ px[d][n].pc = "in_process"
    /\ px' = [px EXCEPT ![d][n] =
                IF raises
                THEN [@ EXCEPT !.pc = "ended", !.status = StatusOnError,
                               !.error = e, !.exc = e, !.reraised = TRUE,
                               !.end_time = "now"]
                ELSE [@ EXCEPT !.pc = "ended", !.status = COMPLETED,
                               !.end_time = "now"]]
    /\ UNCHANGED <<pipevars, zipvars, sd, bq, svc>>

\* PipelineOrchestrator.processors builds the processors anew for the next
\* task of the department.
ProcessorNew(d) ==
    /\ \A n \in ProcessorNames : px[d][n].pc # "in_process"
    /\ \E n \in ProcessorNames : px[d][n].pc = "ended"
    /\ px' = [px EXCEPT ![d] = [n \in ProcessorNames |-> ProcessorInit]]
    /\ UNCHANGED <<pipevars, zipvars, sd, bq, svc>>

\* --------------------------------------------------------------------- spec
\* The steps of a department task after its feed request was answered.
TaskStep(t) ==
    \/ \E busy \in BusyRuns : FeedItem(t, busy)
    \/ FeedReturn(t)
    \/ \E opened \in BOOLEAN : PdfBegin(t, opened)
    \/ PdfNext(t)
    \/ \E r \in DocResponses : PdfResponse(t, r)
    \/ PdfFileWritten(t)
    \/ \E b1 \in BusyRuns, b2 \in BusyRuns : PdfExtract(t, b1, b2)
    \/ PdfReturn(t)
    \/ DeptReturn(t)

\* One run over all departments from the empty store: the department tasks
\* of the run interleave.
FirstRun == runs = 0 /\ RunStart(Depts)

Next ==
    \/ FirstRun
    \/ RunEnd
    \/ \E t \in Depts, resp \in ConcResponses, opened \in BOOLEAN :
          FeedResponse(t, resp, opened)
    \/ \E t \in Depts : TaskStep(t)

Spec == Init /\ [][Next]_vars

\* Successive runs over the one configured department (DEPARTMENTS has one
\* entry), with the full menu of feed documents.
Configured == {"d1"}

NextSeq ==
    \/ RunStart(Configured)
    \/ RunEnd
    \/ \E t \in Depts, resp \in SeqResponses, opened \in BOOLEAN :
          FeedResponse(t, resp, opened)
    \/ \E t \in Depts : TaskStep(t)

SpecSeq == Init /\ [][NextSeq]_vars

\* start_pipeline without the validation of the department ids.
InvalidDepts_None(ids) == {}

\* [d for d in dept_ids if d not in DEPARTMENTS]
InvalidDepts(ids) == ids \ Configured

\* PipelineService.start_pipeline(dept_ids), dept_ids given as the set of
\* its ids ({} for None and for the empty list): ValueError when an id is
\* not configured, otherwise scheduler.run_manual(dept_ids), which awaits
\* orchestrator.run(dept_ids); run takes every configured department when
\* dept_ids is empty.
StartPipeline(ids) ==
    IF InvalidDepts(ids) # {}
    THEN /\ cur = None
         /\ svc' = [raised |-> TRUE, ids |-> ids]
         /\ lastWrite' = NoWrite
         /\ UNCHANGED <<table, clock, files, cur, runs, orch, pc, feed, pdf,
                        dres, zipvars, sd, bq, px>>
    ELSE RunStart(IF ids = {} THEN Configured ELSE ids)

\* Runs started through the service, with lists of configured and of
\* unconfigured department ids.
NextSvc ==
    \/ \E ids \in SUBSET Depts : StartPipeline(ids)
    \/ RunEnd
    \/ \E t \in Depts, resp \in ConcResponses, opened \in BOOLEAN :
          FeedResponse(t, resp, opened)
    \/ \E t \in Depts : TaskStep(t)

SpecSvc == Init /\ [][NextSvc]_vars

\* Runs over the configured department in which every await comes back:
\* every HTTP request is answered or times out, every write in the thread
\* pool ends, and the event loop resumes every task that can run.  Nothing
\* obliges a run to be started.
NextLive ==
    \/ RunStart(Configured)
    \/ RunEnd
    \/ \E t \in Depts, resp \in ConcResponses, opened \in BOOLEAN :
          FeedResponse(t, resp, opened)
    \/ \E t \in Depts : TaskStep(t)

SpecLive ==
    /\ Init /\ [][NextLive]_vars
    /\ WF_vars(RunEnd)
    /\ \A t \in Depts :
          /\ WF_vars(\E resp \in ConcResponses, opened \in BOOLEAN :
                        FeedResponse(t, resp, opened))
          /\ WF_vars(TaskStep(t))

\* Calls of run on the one orchestrator of the scheduler that may overlap,
\* each over one department.
NextOverlap ==
    \/ \E d \in Depts : RunCall({d})
    \/ \E d \in Depts : RunReturn({d})
    \/ \E t \in Depts, resp \in OverlapResponses, opened \in BOOLEAN :
          FeedResponse(t, resp, opened)
    \/ \E t \in Depts : TaskStep(t)

SpecOverlap == Init /\ [][NextOverlap]_vars

\* The document processor on its own: archives are downloaded and extracted
\* for the projects, the stage is executed.
NextZip ==
    \/ \E project \in Projects : ZipCall(project)
    \/ \E r \in ZipResponses : ZipResponse(r)
    \/ ZipSaved
    \/ ZipExtract
    \/ DocExecute

SpecZip == Init /\ [][NextZip]_vars

\* The submission-date extraction and the query loop of the base
\* repository, each applied to its inputs.
NextFn ==
    \/ \E day \in DayTexts, month \in MonthTexts, year \in YearTexts :
          DateCall(day, month, year)
    \/ DateReturn
    \/ \E busy \in 0..MAX_RETRIES, locked \in BOOLEAN :
          BaseQueryCall(busy, locked)
    \/ BaseQueryAttempt
    \/ BaseQueryWake

SpecFn == Init /\ [][NextFn]_vars

\* The processors of the department tasks, each executed on its own.
NextExec ==
    \/ \E d \in Depts, n \in ProcessorNames : ExecuteCall(d, n)
    \/ \E d \in Depts, n \in ProcessorNames, raises \in BOOLEAN, e \in Errors :
          ExecuteEnd(d, n, raises, e)
    \/ \E d \in Depts : ProcessorNew(d)

SpecExec == Init /\ [][NextExec]_vars

\* ------------------------------------------------------------------- claims
\* C1: no two rows of the announcements table share a project_id, whatever
\* upserts the feed stages of the departments issue.
C1_UniqueProjectId ==
    \A i, j \in 1..Len(table) :
        table[i].project_id = table[j].project_id => i = j

\* A department has just upserted a project that another department inserted.
C1_Witness ==
    \E t \in Depts :
        /\ cur = t
        /\ lastWrite.op = "upsert" /\ ~lastWrite.error
        /\ feed[t].prs = <<FALSE>>
        /\ Len(table) = 1 /\ table[1].dept_id # t

\* C2: the status of a row only moves forward: no step sets a completed row
\* back to pending.
C2_StatusForwardOnly ==
    [][\A i \in 1..Len(table) :
          table[i].status = COMPLETED => table'[i].status # PENDING]_vars

\* C3: a step of the feed stage leaves the status of every row that is
\* already stored as it was.
C3_FeedKeepsStatus ==
    [][(\E t \in Depts : cur = t /\ pc[t] = "feed_store") =>
          \A i \in 1..Len(table) : table'[i].status = table[i].status]_vars

\* C4: created_at of a row is the time of its insert and no later step
\* changes it.
C4_CreatedAtImmutable ==
    [][/\ \A i \in 1..Len(table) : table'[i].created_at = table[i].created_at
       /\ \A i \in (Len(table) + 1)..Len(table') :
             table'[i].created_at = clock']_vars

\* A stored row has just been upserted again, later than its insert.
C4_Witness ==
    /\ lastWrite.op = "upsert" /\ ~lastWrite.error
    /\ \E i \in 1..Len(table) :
          table[i].updated_at = clock /\ table[i].created_at < clock

\* C5: at most one task is inside a store write section at any time.
C5_SingleWriter ==
    Cardinality({t \in Depts : feed[t].lock \/ pdf[t].lock}) <= 1

\* C6: a write the store rejects as busy is retried, at most MAX_RETRIES
\* attempts in all, and fails only when the last of them is rejected too.
C6_BusyWriteRetried ==
    lastWrite.op # "none" =>
        /\ lastWrite.attempts <= MAX_RETRIES
        /\ lastWrite.error => lastWrite.attempts = MAX_RETRIES
        /\ lastWrite.error <=> lastWrite.busy >= MAX_RETRIES

\* C7: the feed stage returns its counts without an error whatever the
\* items are: items without a resolvable project_id and items whose upsert
\* the store rejects are skipped, every other item is upserted.
C7_BadItemsSkipped ==
    \A t \in Depts :
        pc[t] = "feed_done" /\ feed[t].opened =>
            /\ ~feed[t].result.error
            /\ feed[t].ups = feed[t].good
            /\ feed[t].result.processed = feed[t].good

\* A batch was ingested in which one item was rejected by the store and
\* another one was upserted.
C7_Witness ==
    \E t \in Depts :
        /\ pc[t] = "feed_done" /\ feed[t].opened
        /\ feed[t].result.processed >= 1
        /\ Len(feed[t].prs) < Len(feed[t].anns)

\* C8: in the result of the feed stage, processed is the number of
\* successful upserts, new + updated = processed, and new is the number of
\* items whose project_id was not stored right before their upsert.
C8_FeedCounts ==
    \A t \in Depts :
        pc[t] = "feed_done" =>
            /\ feed[t].result.processed = feed[t].ups
            /\ feed[t].result.new + feed[t].result.updated
                  = feed[t].result.processed
            /\ feed[t].result.new = feed[t].ins

\* A batch was ingested with a new and an already stored project.
C8_Witness ==
    \E t \in Depts :
        /\ pc[t] = "feed_done"
        /\ feed[t].result.new >= 1 /\ feed[t].result.updated >= 1

\* C9: when the feed cannot be fetched the feed stage returns processed = 0
\* with an error and never enters the store.
C9_FetchFailureSoft ==
    \A t \in Depts :
        feed[t].fetchFailed =>
            /\ pc[t] \in {"feed_done"}
            /\ ~feed[t].opened /\ ~feed[t].lock
            /\ feed[t].ups = 0
            /\ feed[t].result = FeedError

\* The fetch of a later run failed over a store that holds rows.
C9_Witness ==
    \E t \in Depts :
        /\ pc[t] = "feed_done" /\ feed[t].fetchFailed
        /\ feed[t].result = FeedError
        /\ Len(table) >= 1

\* C10: when the PDF stage ends, every announcement of it whose document
\* could not be acquired or extracted is stored as failed and is counted in
\* the failed count of the stage.
C10_FailedDocumentsMarked ==
    \A t \in Depts :
        pc[t] = "pdf_done" =>
            LET bad == pdf[t].acqFailed \cup pdf[t].extFailed
            IN  /\ \A id \in bad : table[id].status = FAILED
                /\ pdf[t].results.failed >= Cardinality(bad)


C12_BatchSurvivesFailures ==
    \A t \in Depts :
        pc[t] = "pdf_done" =>
            /\ ~pdf[t].raised
            /\ pdf[t].idx > Len(pdf[t].snapshot)

\* C15: in a run, the PDF stage of a department is not executed when the
\* feed stage of that department returned an error.
C15_FeedFailureSkipsDocuments ==
    \A t \in Depts :
        dres[t].feed.ran /\ dres[t].feed.error => pdf[t].status = PENDING

\* C16: when the run over all departments has ended, every department has
\* its entry in the results, and every department whose own chain met no
\* fatal error has the results of both stages, whatever happened to the
\* other departments.
C16_DepartmentIsolation ==
    orch.status \in {COMPLETED, FAILED} =>
        /\ orch.ran = Depts
        /\ \A d \in Depts :
              \/ orch.results[d].error
              \/ orch.results[d].feed.ran /\ orch.results[d].pdf.ran

\* A run has ended in which one department met a fatal error and another
\* one ran both stages.
C16_Witness ==
    /\ orch.status = COMPLETED
    /\ \E a, b \in Depts :
          /\ orch.results[a].error
          /\ ~orch.results[b].error
          /\ orch.results[b].feed.ran /\ orch.results[b].pdf.ran

\* C17: the status of a finished run is completed if and only if no stage
\* of any department raised, and failed otherwise.
C17_StatusReflectsFatalErrors ==
    orch.status \in {COMPLETED, FAILED} =>
        (orch.status = COMPLETED <=>
            \A d \in orch.ran : ~orch.results[d].error)

\* C18: in the results of a finished run, the entry of a department whose
\* PDF stage raised still holds the result of its feed stage.
C18_PartialResultsKept ==
    orch.status \in {COMPLETED, FAILED} =>
        \A d \in orch.ran :
            orch.results[d].error => orch.results[d].feed.ran

\* C20: in one run, no two department tasks are downloading or writing the
\* document of the same project at the same time.
C20_OneTaskPerDocument ==
    \A a, b \in Depts :
        (/\ a # b
         /\ pc[a] \in {"pdf_http", "pdf_write"}
         /\ pc[b] \in {"pdf_http", "pdf_write"})
        => pdf[a].snapshot[pdf[a].idx].project_id
              # pdf[b].snapshot[pdf[b].idx].project_id

\* C19: the orchestrator reports the status processing exactly while at
\* least one call of run is in flight, also when calls overlap.
C19_StatusTracksRunsInFlight ==
    (orch.status = PROCESSING) <=> (orch.calls # {})

\* C13: when an archive with an absolute or a parent-directory entry has
\* gone through _process_zip_file, nothing of it was extracted, the
\* temporary archive file is gone and None was returned.
C13_UnsafeArchiveRejected ==
    zip.pc = "zip_done" /\ zip.unsafe =>
        /\ disk = zip.before
        /\ ~zip.temp
        /\ zip.ret = None

\* An archive of a safe and an unsafe entry was rejected after an earlier
\* archive of the project was extracted.
C13_Witness ==
    /\ zip.pc = "zip_done" /\ zip.unsafe /\ zip.safe >= 1
    /\ zip.ret = None
    /\ disk # {} /\ disk = zip.before

\* C14: when the archive of an announcement was rejected as unsafe and the
\* document stage has been executed, the stored status of the announcement
\* is failed.
C14_RejectedArchiveMarksFailed ==
    (/\ zip.pc = "zip_done" /\ zip.unsafe
     /\ doc.status \in {COMPLETED, FAILED})
    => GetByProjectId(table, zip.project).status = FAILED

\* The positions of a department task from the read of the pending list on.
PdfPositions ==
    {"pdf_loop", "pdf_http", "pdf_write", "pdf_extract", "pdf_done", "done"}

\* C21: within a run the stages of a department are sequenced: when the
\* document stage of a department reads the pending list, the feed stage of
\* that department has left the store with no item of its feed left to
\* upsert, and no upsert of the department follows the read.
C21_StagesSequenced ==
    [][\A t \in Depts :
          /\ (pc[t] \notin PdfPositions /\ pc'[t] \in PdfPositions) =>
                /\ ~feed[t].lock
                /\ feed[t].opened => feed[t].idx > Len(feed[t].anns)
          /\ (pc[t] \in PdfPositions /\ cur = t) => lastWrite'.op # "upsert"]_vars

\* A department reads in its document stage a row that its own feed stage
\* inserted in this run, while the other department is still in its feed
\* stage.
C21_Witness ==
    \E t, u \in Depts :
        /\ pc[t] = "pdf_loop" /\ pdf[t].idx = 1
        /\ \E i \in 1..Len(pdf[t].snapshot) : pdf[t].snapshot[i].dept_id = t
        /\ pc[u] \in {"feed_http", "feed_store"}

\* C23: the pending list the document stage reads holds exactly the stored
\* rows whose status is pending, each once, in ascending order of created_at:
\* the row created earliest comes first.
C23_PendingOldestFirst ==
    \A t \in Configured :
        pc[t] = "pdf_loop" /\ pdf[t].idx = 1 =>
            LET snap == pdf[t].snapshot
            IN  /\ {snap[i].id : i \in 1..Len(snap)}
                      = {i \in 1..Len(table) : table[i].status = PENDING}
                /\ \A i \in 1..Len(snap) : snap[i] = table[snap[i].id]
                /\ \A i, j \in 1..Len(snap) :
                      i < j => snap[i].created_at < snap[j].created_at

\* C24: no stored row ever has the status processing, in states in the
\* middle of a run (where an interruption would leave the store as it is)
\* as well as between runs: every stored status is pending, completed or
\* failed.
C24_ProcessingNeverStored ==
    \A i \in 1..Len(table) : table[i].status \in {PENDING, COMPLETED, FAILED}

\* In the middle of a run, the orchestrator and the PDF processor in the
\* status processing and the task suspended in a download: the row it is
\* working on is stored as pending, the row before it as completed.
C24_Witness ==
    \E t \in Depts :
        /\ pc[t] = "pdf_http"
        /\ orch.status = PROCESSING /\ pdf[t].status = PROCESSING
        /\ pdf[t].idx = 2
        /\ table[pdf[t].snapshot[1].id].status = COMPLETED
        /\ table[pdf[t].snapshot[2].id].status = PENDING

C26_FieldsIndependent ==
    \A t \in Configured :
        /\ \A id \in pdf[t].extFailed :
              files[table[id].project_id] \notin {"full", "budget_only"}
        /\ (/\ cur = t /\ pc[t] = "pdf_loop"
            /\ lastWrite.op = "update" /\ ~lastWrite.error) =>
              LET row == table[pdf[t].snapshot[pdf[t].idx - 1].id]
                  others == {row.quantity, row.duration_years,
                             row.duration_months, row.submission_date,
                             row.contact_phone, row.contact_email}
              IN  /\ row.status = COMPLETED
                  /\ row.pdf_path = PdfPath(row.project_id)
                  /\ files[row.project_id] = "budget_only" =>
                        row.budget_amount = "500.00" /\ others = {NULL}
                  /\ files[row.project_id] = "full" =>
                        row.budget_amount = "1234567.89" /\ NULL \notin others

\* The row of a document with a budget and no other match has just been
\* stored: completed, with the budget, without phone and e-mail.
C26_Witness ==
    \E t \in Configured :
        /\ cur = t /\ pc[t] = "pdf_loop"
        /\ lastWrite.op = "update" /\ ~lastWrite.error
        /\ LET row == table[pdf[t].snapshot[pdf[t].idx - 1].id]
           IN  /\ files[row.project_id] = "budget_only"
               /\ row.status = COMPLETED
               /\ row.budget_amount # NULL
               /\ row.contact_phone = NULL /\ row.contact_email = NULL

\* The Gregorian date (y, m, d) exists.
ValidDate(y, m, d) ==
    y >= 1 /\ m \in 1..12 /\ d >= 1 /\ d <= DaysInMonth(y, m)

\* C27: for a match of day D, month M and Buddhist-era year Y, Thai digits
\* read as the Arabic ones, the extraction returns the date (Y - 543, M, D)
\* when that is a date of the calendar, and None otherwise.
C27_SubmissionDateGregorian ==
    sd.pc = "done" =>
        LET y == IntOf(sd.year) - 543
            m == IntOf(ThaiMonths[sd.month])
            d == IntOf(sd.day)
        IN  sd.result = IF ValidDate(y, m, d)
                        THEN [year |-> y, month |-> m, day |-> d]
                        ELSE NoDate

\* C30: the delay before the k-th retry of a contended statement is
\* RETRY_DELAY * 2^(k-1), 100 ms and then 200 ms, and no delay follows the
\* last failed attempt.
C30_BackoffDoubles ==
    /\ \A k \in 1..Len(bq.delays) : bq.delays[k] = RETRY_DELAY_MS * 2^(k - 1)
    /\ Len(bq.delays) <= MAX_RETRIES - 1
    /\ bq.pc = "raised" => Len(bq.delays) = bq.attempts - 1

\* C28: when every await of a run comes back, a run that has started
\* ends: the status leaves processing for completed or failed with the end
\* time recorded; and while no run is in flight the status is not
\* processing.
C28_RunTerminates ==
    /\ [](orch.calls = {} => orch.status # PROCESSING)
    /\ (orch.calls # {}) ~>
          (/\ orch.calls = {}
           /\ orch.status \in {COMPLETED, FAILED}
           /\ orch.end_time # NULL)

\* A second run has ended with its end time recorded, although a stage of
\* its department raised.
C28_Witness ==
    /\ runs = 2 /\ orch.calls = {}
    /\ orch.status = COMPLETED /\ orch.end_time # NULL
    /\ \E d \in Configured : orch.results[d].error

\* C29: every write the store accepts (upsert, update, update_status)
\* leaves the row it touches with updated_at equal to the time of the
\* write; updated_at of a row never decreases and is never earlier than its
\* created_at.
C29_UpdatedAtBumped ==
    [][/\ \A i \in 1..Len(table) :
             /\ table'[i].updated_at >= table[i].updated_at
             /\ table'[i] # table[i] =>
                   clock' > clock /\ table'[i].updated_at = clock'
       /\ \A i \in 1..Len(table') :
             table'[i].updated_at >= table'[i].created_at
       /\ (lastWrite'.op # "none" /\ ~lastWrite'.error) =>
             /\ clock' > clock
             /\ \E i \in 1..Len(table') : table'[i].updated_at = clock']_vars

\* A row has just been enriched, two writes after its insert: its
\* updated_at is the time of the update, later than its created_at.
C29_Witness ==
    /\ lastWrite.op = "update" /\ ~lastWrite.error
    /\ clock = 3
    /\ \E i \in 1..Len(table) :
          /\ table[i].status = COMPLETED
          /\ table[i].created_at = 1 /\ table[i].updated_at = 3

\* C31: _process_zip_file rejects an archive exactly when an entry is
\* absolute or has a parent-directory part: an archive whose every entry is
\* relative and has no ".." part is extracted in full below the project
\* directory and the project directory is returned, and any other archive
\* is rejected with nothing extracted.
C31_RejectsIffUnsafe ==
    [][(zip.pc = "zip_open" /\ zip'.pc = "zip_done"
        /\ zip.body.kind = "zip") =>
          IF zip.unsafe
          THEN zip'.ret = None /\ disk' = disk
          ELSE /\ zip'.ret = "project_dir"
               /\ disk' = disk \cup ExtractAll(zip.project,
                                               zip.body.entries)]_vars

C33_UpsertFrame ==
    [][(lastWrite'.op = "upsert" /\ ~lastWrite'.error) =>
          \A i \in 1..Len(table) :
              [table'[i] EXCEPT !.title = table[i].title,
                                !.link = table[i].link,
                                !.description = table[i].description,
                                !.status = table[i].status,
                                !.updated_at = table[i].updated_at]
                  = table[i]]_vars

\* A department has just upserted a project that another department
\* inserted and whose row holds a document path and an extracted budget.
C33_Witness ==
    \E t \in Depts :
        /\ cur = t
        /\ lastWrite.op = "upsert" /\ ~lastWrite.error
        /\ \E i \in 1..Len(table) :
              /\ table[i].updated_at = clock /\ table[i].created_at < clock
              /\ table[i].dept_id # t
              /\ table[i].status = PENDING
              /\ table[i].pdf_path # NULL
              /\ table[i].budget_amount # NULL

\* C34: a write of the document stage leaves title, link and description
\* of every stored row as they are stored: what a feed upsert of another
\* task committed after the stage read its list is not replaced by the
\* values of the list.
C34_NoLostUpdate ==
    [][(lastWrite'.op \in {"update", "update_status"} /\ ~lastWrite'.error) =>
          \A i \in 1..Len(table) :
              /\ table'[i].title = table[i].title
              /\ table'[i].link = table[i].link
              /\ table'[i].description = table[i].description]_vars

\* PipelineOrchestrator.get_summary, the statistics of the stages: the
\* number of department entries whose record of the stage has the status
\* completed, and the number whose record has the status failed.  An entry
\* {"error": ...} has no record of any stage.
StageStats(results, stage) ==
    [successful |-> Cardinality({d \in DOMAIN results :
                       results[d][stage].ran
                       /\ results[d][stage].status = COMPLETED}),
     failed |-> Cardinality({d \in DOMAIN results :
                       results[d][stage].ran
                       /\ results[d][stage].status = FAILED})]

get_summary(results) ==
    [FeedProcessor |-> StageStats(results, "feed"),
     PDFProcessor |-> StageStats(results, "pdf")]

\* C35: in the summary of a finished run, for each stage, successful plus
\* failed is the number of departments in which the stage was executed and
\* failed is the number of departments in which the stage raised.
C35_SummaryCounts ==
    orch.status \in {COMPLETED, FAILED} =>
        LET summary == get_summary(orch.results)
            executed(st) == {d \in orch.ran : st[d].status \in {COMPLETED, FAILED}}
            raised(st) == {d \in orch.ran : st[d].status = FAILED}
        IN  /\ summary.FeedProcessor.successful + summary.FeedProcessor.failed
                  = Cardinality(executed(feed))
            /\ summary.FeedProcessor.failed = Cardinality(raised(feed))
            /\ summary.PDFProcessor.successful + summary.PDFProcessor.failed
                  = Cardinality(executed(pdf))
            /\ summary.PDFProcessor.failed = Cardinality(raised(pdf))

C37_ResultCounts ==
    \A t \in Depts :
        LET r == pdf[t].results
        IN  /\ r.processed <= r.downloaded
            /\ r.downloaded <= r.total
            /\ r.processed + r.failed <= r.total
            /\ pc[t] \in {"pdf_loop", "pdf_done"} =>
                  r.processed + r.failed <= pdf[t].idx

\* The stage has gone through a list of two announcements: the document
\* of one was extracted but the store rejected the update, so that it was
\* counted as failed in the handler and not as processed.
C37_Witness ==
    \E t \in Depts :
        /\ pc[t] = "pdf_done" /\ ~pdf[t].raised
        /\ pdf[t].results.total = 2
        /\ pdf[t].results.processed = 0 /\ pdf[t].results.failed = 1
        /\ \E i \in 1..2 :
              /\ table[pdf[t].snapshot[i].id].status = FAILED
              /\ pdf[t].snapshot[i].id \notin pdf[t].extFailed

\* C38: start_pipeline called with a list that holds an id which is not a
\* configured department raises before any run starts: no run over an
\* unconfigured department is ever in flight, and the step that rejects
\* the call leaves the status and the results of the orchestrator, the
\* announcement store and the department tasks as they were.
C38_InvalidDepartmentsRejected ==
    [][/\ \A ds \in orch'.calls : ds \subseteq Configured
       /\ svc' # svc =>
             /\ svc'.raised /\ ~(svc'.ids \subseteq Configured)
             /\ UNCHANGED <<table, clock, files, runs, orch, pc, feed, pdf,
                            dres>>]_vars

\* A call with a configured and an unconfigured id was rejected after a
\* run had filled the store and while a later run is in flight.
C38_Witness ==
    /\ svc.raised /\ svc.ids = {"d1", "d2"}
    /\ Len(table) >= 1
    /\ runs = 2 /\ orch.status = PROCESSING
    /\ orch.calls = {Configured}

====
